---- MODULE Spec2Model ----
(***************************************************************************)
(* HRMS Lite API: the employee directory and the attendance ledger         *)
(* (src/crud.py), the relational schema they persist to (src/models.py),   *)
(* the input validation (src/schemas.py) and the request handlers          *)
(* (src/main.py).                                                          *)
(*                                                                         *)
(* Requests are served by a fixed set of workers against one store.  A     *)
(* handler that issues several statements is modelled statement by         *)
(* statement: every query sees the rows committed so far and every commit  *)
(* is atomic, so other requests may commit between a handler's pre-check   *)
(* and its insert.  A handler whose lookup is followed by one commit       *)
(* (delete_employee, update_attendance, delete_attendance) is one step,    *)
(* and so is each call of get_today_stats and get_summary.                 *)
(***************************************************************************)
EXTENDS Integers, Sequences, FiniteSets, TLC

\* ---------------------------------------------------------------- bounds
MaxEmployees == 2
MaxAttendance == 2
MaxDay == 1
SummaryDays == 4

\* Two requests are in flight at most: every race of the handlers below is
\* a race of two requests.
Workers == {"w1", "w2"}
EmployeeIds == 1..MaxEmployees
AttendanceIds == 1..MaxAttendance
Days == 0..MaxDay

\* ---------------------------------------------------------------- values
PRESENT == "Present"
ABSENT == "Absent"
AttendanceStatus == {PRESENT, ABSENT}

HTTP_200_OK == 200
HTTP_201_CREATED == 201
HTTP_204_NO_CONTENT == 204
HTTP_404_NOT_FOUND == 404
HTTP_409_CONFLICT == 409
HTTP_422_UNPROCESSABLE_ENTITY == 422

\* Strings whose case matters are sequences of characters.
LowerChar(c) ==
    CASE c = "A" -> "a"
      [] c = "B" -> "b"
      [] c = "E" -> "e"
      [] OTHER -> c

Lower(s) == [i \in DOMAIN s |-> LowerChar(s[i])]

EmployeeCodes == {<<"E", "1">>, <<"e", "1">>}
EmailInputs == {<<"a", "@", "x">>, <<"A", "@", "x">>, <<"b", "@", "x">>}

\* A validated EmployeeCreate body (full_name and department play no part
\* in any constraint and are left out).
EmployeeCreate == [employee_id : EmployeeCodes, email : EmailInputs]

\* An AttendanceCreate body as it arrives, before validate_date.
AttendanceInput == [employee_id : EmployeeIds, date : Days, status : AttendanceStatus]

VARIABLES
    employees,    \* table "employees": rows [id, employee_id, email]
    attendance,   \* table "attendance": rows [id, employee_id, date, status]
    employeeSeq,  \* last id handed out by employees.id autoincrement
    attendanceSeq,\* last id handed out by attendance.id autoincrement
    today,        \* date.today()
    pc,           \* per worker: the statement its handler executes next
    frame,        \* per worker: the handler's arguments and locals
    response      \* the response sent by the step just taken

vars == <<employees, attendance, employeeSeq, attendanceSeq, today, pc, frame, response>>

NoFrame == [op |-> "none"]
NoResponse == [op |-> "none", status |-> 0, detail |-> "", args |-> <<>>, body |-> <<>>]

IntegrityErrorDetailEmployee == "An employee with this ID or email already exists"
IntegrityErrorDetailAttendance == "Attendance record already exists for this date"

Reply(op, status, detail, args, body) ==
    [op |-> op, status |-> status, detail |-> detail, args |-> args, body |-> body]

\* ---------------------------------------------------------------- schema
\* unique=True on employees.employee_id and employees.email
EmployeeUniqueViolation(row) ==
    \E e \in employees : e.employee_id = row.employee_id \/ e.email = row.email

\* The table without its UniqueConstraint.
AttendanceUniqueViolation_dropped(row) == FALSE

\* UniqueConstraint('employee_id', 'date')
AttendanceUniqueViolation(row) ==
    \E a \in attendance : a.employee_id = row.employee_id /\ a.date = row.date

\* Whether the engine enforces the foreign keys the schema declares (the
\* engine is configured outside the files modelled here).
ForeignKeysEnforced == TRUE

\* The column without its ForeignKey.
ForeignKeyViolation_unchecked(row) == FALSE

\* ForeignKey("employees.id", ondelete="CASCADE"), nullable=False
ForeignKeyViolation(row) ==
    ForeignKeysEnforced /\ ~ \E e \in employees : e.id = row.employee_id

\* ---------------------------------------------------------------- crud
\* The row with the email stored as typed.
EmployeeRow_email_as_given(id, employee) ==
    [id |-> id, employee_id |-> employee.employee_id, email |-> employee.email]

EmployeeRow(id, employee) ==
    [id |-> id, employee_id |-> employee.employee_id, email |-> Lower(employee.email)]

get_by_id(employee_id) == {e \in employees : e.id = employee_id}

get_by_employee_id(employee_id) == {e \in employees : e.employee_id = employee_id}

get_by_email(email) == {e \in employees : e.email = Lower(email)}

count == Cardinality(employees)

AttendanceRow(id, att) ==
    [id |-> id, employee_id |-> att.employee_id, date |-> att.date, status |-> att.status]

get_existing(employee_id, target_date) ==
    {a \in attendance : a.employee_id = employee_id /\ a.date = target_date}

get_by_employee(employee_id) == {a \in attendance : a.employee_id = employee_id}

validate_date(v) == ~ (v > today)

Init ==
    /\ employees = {}
    /\ attendance = {}
    /\ employeeSeq = 0
    /\ attendanceSeq = 0
    /\ today = 0
    /\ pc = [w \in Workers |-> "idle"]
    /\ frame = [w \in Workers |-> NoFrame]
    /\ response = NoResponse

\* The calendar day changes.
Tick ==
    /\ today < MaxDay
    /\ today' = today + 1
    /\ response' = NoResponse
    /\ UNCHANGED <<employees, attendance, employeeSeq, attendanceSeq, pc, frame>>

Finish(w, r) ==
    /\ pc' = [pc EXCEPT ![w] = "idle"]
    /\ frame' = [frame EXCEPT ![w] = NoFrame]
    /\ response' = r

Goto(w, label, f) ==
    /\ pc' = [pc EXCEPT ![w] = label]
    /\ frame' = [frame EXCEPT ![w] = f]
    /\ response' = NoResponse

\* The requests of one kind in flight.  A create request is admitted only
\* while the id sequence has an id left for it.
InFlight(op) == Cardinality({w \in Workers : frame[w].op = op})

\* ------------------------------------------------------- create_employee
create_employee_id_check(w) ==
    /\ pc[w] = "idle"
    /\ employeeSeq + InFlight("create_employee") < MaxEmployees
    /\ \E employee \in EmployeeCreate :
        IF get_by_employee_id(employee.employee_id) # {}
        THEN Finish(w, Reply("create_employee", HTTP_409_CONFLICT,
                             "Employee with ID already exists", employee, <<>>))
        ELSE Goto(w, "create_employee_email", [op |-> "create_employee", employee |-> employee])
    /\ UNCHANGED <<employees, attendance, employeeSeq, attendanceSeq, today>>

create_employee_email_check(w) ==
    /\ pc[w] = "create_employee_email"
    /\ IF get_by_email(frame[w].employee.email) # {}
       THEN Finish(w, Reply("create_employee", HTTP_409_CONFLICT,
                            "Employee with email already exists", frame[w].employee, <<>>))
       ELSE Goto(w, "create_employee_insert", frame[w])
    /\ UNCHANGED <<employees, attendance, employeeSeq, attendanceSeq, today>>

\* The handler without its except clause.
create_employee_integrity_error_unhandled(employee) ==
    Reply("create_employee", 500, "Internal Server Error", employee, <<>>)

\* except IntegrityError: db.rollback(); raise HTTPException(409)
create_employee_integrity_error(employee) ==
    Reply("create_employee", HTTP_409_CONFLICT, IntegrityErrorDetailEmployee, employee, <<>>)

create_employee_insert(w) ==
    /\ pc[w] = "create_employee_insert"
    /\ LET employee == frame[w].employee
           row == EmployeeRow(employeeSeq + 1, employee)
       IN  IF EmployeeUniqueViolation(row)
           THEN /\ Finish(w, create_employee_integrity_error(employee))
                /\ UNCHANGED <<employees, employeeSeq>>
           ELSE /\ employees' = employees \cup {row}
                /\ employeeSeq' = employeeSeq + 1
                /\ Finish(w, Reply("create_employee", HTTP_201_CREATED, "", employee, row))
    /\ UNCHANGED <<attendance, attendanceSeq, today>>

\* ------------------------------------------------------- delete_employee
\* db.delete(employee) with relationship cascade "all, delete-orphan" and the
\* foreign key's ON DELETE CASCADE: the rows left in "attendance".
\* The delete without any cascade.
cascade_delete_no_row(employee_id) == attendance

cascade_delete(employee_id) == {a \in attendance : a.employee_id # employee_id}

delete_employee(w) ==
    /\ pc[w] = "idle"
    /\ \E employee_id \in EmployeeIds :
        IF get_by_id(employee_id) # {}
        THEN /\ employees' = employees \ get_by_id(employee_id)
             /\ attendance' = cascade_delete(employee_id)
             /\ response' = Reply("delete_employee", HTTP_204_NO_CONTENT, "",
                                  [employee_id |-> employee_id], <<>>)
        ELSE /\ response' = Reply("delete_employee", HTTP_404_NOT_FOUND,
                                  "Employee not found", [employee_id |-> employee_id], <<>>)
             /\ UNCHANGED <<employees, attendance>>
    /\ UNCHANGED <<employeeSeq, attendanceSeq, today, pc, frame>>

\* ------------------------------------------------------- mark_attendance
mark_attendance_employee_check(w) ==
    /\ pc[w] = "idle"
    /\ attendanceSeq + InFlight("mark_attendance") < MaxAttendance
    /\ \E att \in AttendanceInput :
        IF ~ validate_date(att.date)
        THEN Finish(w, Reply("mark_attendance", HTTP_422_UNPROCESSABLE_ENTITY,
                             "Cannot mark attendance for future dates", att, <<>>))
        ELSE IF get_by_id(att.employee_id) = {}
        THEN Finish(w, Reply("mark_attendance", HTTP_404_NOT_FOUND,
                             "Employee not found", att, <<>>))
        ELSE Goto(w, "mark_attendance_existing", [op |-> "mark_attendance", attendance |-> att])
    /\ UNCHANGED <<employees, attendance, employeeSeq, attendanceSeq, today>>

mark_attendance_existing_check(w) ==
    /\ pc[w] = "mark_attendance_existing"
    /\ LET att == frame[w].attendance
       IN  IF get_existing(att.employee_id, att.date) # {}
           THEN Finish(w, Reply("mark_attendance", HTTP_409_CONFLICT,
                                "Attendance for this employee on this date already exists",
                                att, <<>>))
           ELSE Goto(w, "mark_attendance_insert", frame[w])
    /\ UNCHANGED <<employees, attendance, employeeSeq, attendanceSeq, today>>

\* The INSERT of AttendanceCRUD.create raises IntegrityError.
AttendanceIntegrityError(row) ==
    AttendanceUniqueViolation(row) \/ ForeignKeyViolation(row)

mark_attendance_integrity_error(att) ==
    Reply("mark_attendance", HTTP_409_CONFLICT, IntegrityErrorDetailAttendance, att, <<>>)

mark_attendance_insert(w) ==
    /\ pc[w] = "mark_attendance_insert"
    /\ LET att == frame[w].attendance
           row == AttendanceRow(attendanceSeq + 1, att)
       IN  IF AttendanceIntegrityError(row)
           THEN /\ Finish(w, mark_attendance_integrity_error(att))
                /\ UNCHANGED <<attendance, attendanceSeq>>
           ELSE /\ attendance' = attendance \cup {row}
                /\ attendanceSeq' = attendanceSeq + 1
                /\ Finish(w, Reply("mark_attendance", HTTP_201_CREATED, "", att, row))
    /\ UNCHANGED <<employees, employeeSeq, today>>

\* AttendanceCRUD.create called by a caller other than mark_attendance, with
\* an object whose attributes no validator has seen.
AttendanceCRUD_create(w) ==
    /\ pc[w] = "idle"
    /\ attendanceSeq < MaxAttendance
    /\ \E att \in AttendanceInput :
        LET row == AttendanceRow(attendanceSeq + 1, att)
        IN  IF AttendanceIntegrityError(row)
            THEN /\ response' = Reply("AttendanceCRUD.create", 0, "IntegrityError", att, <<>>)
                 /\ UNCHANGED <<attendance, attendanceSeq>>
            ELSE /\ attendance' = attendance \cup {row}
                 /\ attendanceSeq' = attendanceSeq + 1
                 /\ response' = Reply("AttendanceCRUD.create", 0, "", att, row)
    /\ UNCHANGED <<employees, employeeSeq, today, pc, frame>>

\* ----------------------------------------------------- update_attendance
\* The update without its filter on Attendance.id.
update_status_unfiltered(attendance_id, status) ==
    {[a EXCEPT !.status = status] : a \in attendance}

update_status(attendance_id, status) ==
    {IF a.id = attendance_id THEN [a EXCEPT !.status = status] ELSE a : a \in attendance}

update_attendance(w) ==
    /\ pc[w] = "idle"
    /\ \E attendance_id \in AttendanceIds, status \in AttendanceStatus :
        LET found == {a \in attendance : a.id = attendance_id}
            args == [attendance_id |-> attendance_id, status |-> status]
        IN  IF found # {}
            THEN /\ attendance' = update_status(attendance_id, status)
                 /\ response' = Reply("update_attendance", HTTP_200_OK, "", args,
                                      CHOOSE a \in attendance' : a.id = attendance_id)
            ELSE /\ response' = Reply("update_attendance", HTTP_404_NOT_FOUND,
                                      "Attendance record not found", args, <<>>)
                 /\ UNCHANGED attendance
    /\ UNCHANGED <<employees, employeeSeq, attendanceSeq, today, pc, frame>>

\* ----------------------------------------------------- delete_attendance
delete_attendance(w) ==
    /\ pc[w] = "idle"
    /\ \E attendance_id \in AttendanceIds :
        LET found == {a \in attendance : a.id = attendance_id}
            args == [attendance_id |-> attendance_id]
        IN  IF found # {}
            THEN /\ attendance' = attendance \ found
                 /\ response' = Reply("delete_attendance", HTTP_204_NO_CONTENT, "", args, <<>>)
            ELSE /\ response' = Reply("delete_attendance", HTTP_404_NOT_FOUND,
                                      "Attendance record not found", args, <<>>)
                 /\ UNCHANGED attendance
    /\ UNCHANGED <<employees, employeeSeq, attendanceSeq, today, pc, frame>>

\* --------------------------------------------------- get_dashboard_stats
get_today_stats ==
    LET total_employees == Cardinality(employees)
        present_today ==
            Cardinality({a \in attendance : a.date = today /\ a.status = PRESENT})
        absent_today ==
            Cardinality({a \in attendance : a.date = today /\ a.status = ABSENT})
    IN  [total_employees |-> total_employees,
         present_today |-> present_today,
         absent_today |-> absent_today,
         not_marked |-> total_employees - present_today - absent_today]

get_dashboard_stats_count(w) ==
    /\ pc[w] = "idle"
    /\ Goto(w, "get_dashboard_stats_today",
            [op |-> "get_dashboard_stats", total_employees |-> count])
    /\ UNCHANGED <<employees, attendance, employeeSeq, attendanceSeq, today>>

get_dashboard_stats_today(w) ==
    /\ pc[w] = "get_dashboard_stats_today"
    /\ LET attendance_stats == get_today_stats
       IN  Finish(w, Reply("get_dashboard_stats", HTTP_200_OK, "", <<>>,
                           [total_employees |-> frame[w].total_employees,
                            present_today |-> attendance_stats.present_today,
                            absent_today |-> attendance_stats.absent_today,
                            not_marked |-> attendance_stats.not_marked]))
    /\ UNCHANGED <<employees, attendance, employeeSeq, attendanceSeq, today>>

\* ----------------------------------------------- get_employee_attendance
\* round(x, 2) of x = present / total * 100, in hundredths of a percent;
\* a value half-way between two hundredths goes to the even one.
round2(present, total) ==
    LET q == (present * 10000) \div total
        r == (present * 10000) % total
    IN  IF 2 * r < total THEN q
        ELSE IF 2 * r > total THEN q + 1
        ELSE IF q % 2 = 0 THEN q ELSE q + 1

\* The summary whose present count lacks the employee filter.
get_summary_present_of_all(employee_id) ==
    LET total == Cardinality({a \in attendance : a.employee_id = employee_id})
        present == Cardinality({a \in attendance : a.status = PRESENT})
        absent == total - present
    IN  [total_days |-> total,
         present_days |-> present,
         absent_days |-> absent,
         attendance_percentage_x100 |-> IF total > 0 THEN round2(present, total) ELSE 0]

get_summary(employee_id) ==
    LET total == Cardinality({a \in attendance : a.employee_id = employee_id})
        present == Cardinality({a \in attendance :
                                   a.employee_id = employee_id /\ a.status = PRESENT})
        absent == total - present
    IN  [total_days |-> total,
         present_days |-> present,
         absent_days |-> absent,
         attendance_percentage_x100 |-> IF total > 0 THEN round2(present, total) ELSE 0]

\* order_by(Attendance.date.desc())
RECURSIVE OrderByDateDesc(_)
OrderByDateDesc(rows) ==
    IF rows = {} THEN <<>>
    ELSE LET latest == CHOOSE a \in rows : \A b \in rows : b.date <= a.date
         IN  <<latest>> \o OrderByDateDesc(rows \ {latest})

get_employee_attendance(w) ==
    /\ pc[w] = "idle"
    /\ \E employee_id \in EmployeeIds :
        LET args == [employee_id |-> employee_id]
        IN  IF get_by_id(employee_id) = {}
            THEN response' = Reply("get_employee_attendance", HTTP_404_NOT_FOUND,
                                   "Employee not found", args, <<>>)
            ELSE response' = Reply("get_employee_attendance", HTTP_200_OK, "", args,
                                   [attendance_records |->
                                        OrderByDateDesc(get_by_employee(employee_id)),
                                    summary |-> get_summary(employee_id)])
    /\ UNCHANGED <<employees, attendance, employeeSeq, attendanceSeq, today, pc, frame>>

\* ------------------------------------------------ specifications
\* The requests that change the store.
Next ==
    \E w \in Workers :
        \/ create_employee_id_check(w)
        \/ create_employee_email_check(w)
        \/ create_employee_insert(w)
        \/ delete_employee(w)
        \/ mark_attendance_employee_check(w)
        \/ mark_attendance_existing_check(w)
        \/ mark_attendance_insert(w)
        \/ update_attendance(w)
        \/ delete_attendance(w)

Spec == Init /\ [][Next]_vars

\* The requests that change the store, as the days pass.
NextDays == Next \/ Tick

SpecDays == Init /\ [][NextDays]_vars

\* The employee directory alone.
NextDirectory ==
    \E w \in Workers :
        \/ create_employee_id_check(w)
        \/ create_employee_email_check(w)
        \/ create_employee_insert(w)
        \/ delete_employee(w)

SpecDirectory == Init /\ [][NextDirectory]_vars

\* The two create requests.
NextCreate ==
    \E w \in Workers :
        \/ create_employee_id_check(w)
        \/ create_employee_email_check(w)
        \/ create_employee_insert(w)
        \/ mark_attendance_employee_check(w)
        \/ mark_attendance_existing_check(w)
        \/ mark_attendance_insert(w)

SpecCreate == Init /\ [][NextCreate]_vars

\* The attendance ledger over a directory of two employees, on the last day
\* of the calendar.
InitLedger ==
    /\ employees = {EmployeeRow(1, [employee_id |-> <<"E", "1">>, email |-> <<"A", "@", "x">>]),
                    EmployeeRow(2, [employee_id |-> <<"e", "1">>, email |-> <<"b", "@", "x">>])}
    /\ attendance = {}
    /\ employeeSeq = Cardinality(employees)
    /\ attendanceSeq = 0
    /\ today = MaxDay
    /\ pc = [w \in Workers |-> "idle"]
    /\ frame = [w \in Workers |-> NoFrame]
    /\ response = NoResponse

NextLedger ==
    \E w \in Workers :
        \/ delete_employee(w)
        \/ mark_attendance_employee_check(w)
        \/ mark_attendance_existing_check(w)
        \/ mark_attendance_insert(w)
        \/ update_attendance(w)
        \/ delete_attendance(w)

SpecLedger == InitLedger /\ [][NextLedger]_vars

\* The ledger's create reached through the handler and called directly, as
\* the days pass.
NextDirect ==
    \/ Tick
    \/ \E w \in Workers :
        \/ mark_attendance_employee_check(w)
        \/ mark_attendance_existing_check(w)
        \/ mark_attendance_insert(w)
        \/ AttendanceCRUD_create(w)

InitDirect ==
    /\ employees = {EmployeeRow(1, [employee_id |-> <<"E", "1">>, email |-> <<"A", "@", "x">>]),
                    EmployeeRow(2, [employee_id |-> <<"e", "1">>, email |-> <<"b", "@", "x">>])}
    /\ attendance = {}
    /\ employeeSeq = Cardinality(employees)
    /\ attendanceSeq = 0
    /\ today = 0
    /\ pc = [w \in Workers |-> "idle"]
    /\ frame = [w \in Workers |-> NoFrame]
    /\ response = NoResponse

SpecDirect == InitDirect /\ [][NextDirect]_vars

\* The dashboard, read while the store changes and the days pass.
NextDashboard ==
    \/ Tick
    \/ \E w \in Workers :
        \/ create_employee_id_check(w)
        \/ create_employee_email_check(w)
        \/ create_employee_insert(w)
        \/ delete_employee(w)
        \/ mark_attendance_employee_check(w)
        \/ mark_attendance_existing_check(w)
        \/ mark_attendance_insert(w)
        \/ get_dashboard_stats_count(w)
        \/ get_dashboard_stats_today(w)

SpecDashboard == Init /\ [][NextDashboard]_vars

\* The summary of every ledger of two employees over SummaryDays days.
SummaryRow(employee_id, d, st) ==
    [id |-> (employee_id - 1) * SummaryDays + d + 1, employee_id |-> employee_id,
     date |-> d, status |-> st]

InitSummary ==
    /\ employees = {EmployeeRow(1, [employee_id |-> <<"E", "1">>, email |-> <<"A", "@", "x">>]),
                    EmployeeRow(2, [employee_id |-> <<"e", "1">>, email |-> <<"b", "@", "x">>])}
    /\ \E marks \in [{1, 2} \X (0..(SummaryDays - 1)) -> AttendanceStatus \cup {"unmarked"}] :
        attendance = {SummaryRow(k[1], k[2], marks[k]) :
                         k \in {j \in DOMAIN marks : marks[j] # "unmarked"}}
    /\ employeeSeq = Cardinality(employees)
    /\ attendanceSeq = 2 * SummaryDays
    /\ today = SummaryDays - 1
    /\ pc = [w \in Workers |-> "idle"]
    /\ frame = [w \in Workers |-> NoFrame]
    /\ response = NoResponse

NextSummary == \E w \in Workers : get_employee_attendance(w)

SpecSummary == InitSummary /\ [][NextSummary]_vars

\* ---------------------------------------------------------------- claims
\* C1: in every state reached by interleavings of mark_attendance,
\* update_attendance, delete_attendance and delete_employee, the store
\* holds at most one attendance row per (employee internal id, date).
C1_OneEntryPerEmployeeDate ==
    \A a, b \in attendance :
        (a.employee_id = b.employee_id /\ a.date = b.date) => a = b

\* Two mark_attendance requests for one pair raced: the loser's insert was
\* refused by the store while the winner's row is there.
C1_Witness ==
    /\ response.op = "mark_attendance"
    /\ response.detail = IntegrityErrorDetailAttendance
    /\ Cardinality(get_existing(response.args.employee_id, response.args.date)) = 1

\* C2: in every state reached by interleavings of create_employee and
\* delete_employee, no two employee rows share an external code (exact
\* string) and no two share a lowercased email.
C2_UniqueCodeAndEmail ==
    \A e, f \in employees :
        e # f => /\ e.employee_id # f.employee_id
                 /\ Lower(e.email) # Lower(f.email)

\* A create whose code is new and whose email differs from a stored one only
\* in case was refused.
C2_Witness ==
    /\ response.op = "create_employee"
    /\ get_by_employee_id(response.args.employee_id) = {}
    /\ response.status = HTTP_409_CONFLICT
    /\ response.args.email = <<"A", "@", "x">>
    /\ \E e \in employees : e.email = <<"a", "@", "x">>

DuplicateEmployee(employee) ==
    \E e \in employees :
        \/ e.employee_id = employee.employee_id
        \/ Lower(e.email) = Lower(employee.email)

DuplicateAttendance(att) ==
    \E a \in attendance : a.employee_id = att.employee_id /\ a.date = att.date

\* C3: a create request (employee or attendance) that answers while a
\* duplicate of it is stored answers 409 Conflict and adds no row, whether
\* the duplicate was there before the request or slipped in between its
\* pre-check and its insert; a create request that reaches its insert with
\* no duplicate stored inserts exactly its row and answers 201, so of two
\* racing requests exactly one insert succeeds.
C3_DuplicateCreateIsConflict ==
    [][/\ \A w \in Workers :
            /\ (pc[w] = "create_employee_insert" /\ pc'[w] # pc[w]) =>
                   IF DuplicateEmployee(frame[w].employee)
                   THEN /\ response'.status = HTTP_409_CONFLICT
                        /\ employees' = employees
                   ELSE /\ response'.status = HTTP_201_CREATED
                        /\ Cardinality(employees') = Cardinality(employees) + 1
                        /\ employees \subseteq employees'
                        /\ \A e \in employees' \ employees :
                               /\ e.employee_id = frame[w].employee.employee_id
                               /\ e.email = Lower(frame[w].employee.email)
            /\ (pc[w] = "mark_attendance_insert" /\ pc'[w] # pc[w]) =>
                   IF DuplicateAttendance(frame[w].attendance)
                   THEN /\ response'.status = HTTP_409_CONFLICT
                        /\ attendance' = attendance
                   ELSE /\ response'.status = HTTP_201_CREATED
                        /\ Cardinality(attendance') = Cardinality(attendance) + 1
                        /\ attendance \subseteq attendance'
       /\ (response'.op = "create_employee" /\ DuplicateEmployee(response'.args)) =>
              /\ response'.status = HTTP_409_CONFLICT
              /\ employees' = employees
       /\ (response'.op = "mark_attendance" /\ DuplicateAttendance(response'.args)) =>
              /\ response'.status = HTTP_409_CONFLICT
              /\ attendance' = attendance
      ]_vars

\* Two create_employee requests with one code raced: the second insert was
\* refused by the store and answered 409, and one row carries the code.
C3_Witness ==
    /\ response.op = "create_employee"
    /\ response.status = HTTP_409_CONFLICT
    /\ response.detail = IntegrityErrorDetailEmployee
    /\ Cardinality(get_by_employee_id(response.args.employee_id)) = 1

\* C4: a delete_employee that answers 204 leaves no attendance row of that
\* employee (GetByEmployee is empty), removes exactly that employee and
\* leaves the rows of every other employee as they were.
C4_DeleteEmployeeCascades ==
    [][\A id \in EmployeeIds :
          (/\ response'.op = "delete_employee"
           /\ response'.status = HTTP_204_NO_CONTENT
           /\ response'.args.employee_id = id) =>
              /\ get_by_employee(id)' = {}
              /\ attendance' = {a \in attendance : a.employee_id # id}
              /\ employees' = {e \in employees : e.id # id}
              /\ \E e \in employees : e.id = id
      ]_vars

\* An employee was just deleted, both ledger rows ever created belonged to
\* employees still known when created, and one row of another employee is left.
C4_Witness ==
    /\ response.op = "delete_employee"
    /\ response.status = HTTP_204_NO_CONTENT
    /\ attendanceSeq = 2
    /\ Cardinality(attendance) = 1
    /\ \A a \in attendance : a.employee_id # response.args.employee_id

\* C5: a mark_attendance request with a valid date whose employee_id names
\* no stored employee when it answers, answers 404 and adds no row.
C5_MissingEmployeeIsNotFound ==
    [][(/\ response'.op = "mark_attendance"
        /\ validate_date(response'.args.date)
        /\ get_by_id(response'.args.employee_id) = {}) =>
           /\ response'.status = HTTP_404_NOT_FOUND
           /\ attendance' = attendance
      ]_vars

\* C6: no attendance row is dated after the current date.
C6_NoFutureDatedEntry ==
    \A a \in attendance : a.date <= today

SummaryOf(r) == r.body.summary

EntriesOf(employee_id) == {a \in attendance : a.employee_id = employee_id}

\* C7 as stated: the summary's percentage is exactly present / total * 100.
C7_ExactPercentage ==
    (response.op = "get_employee_attendance" /\ response.status = HTTP_200_OK) =>
        LET sm == SummaryOf(response)
        IN  IF sm.total_days > 0
            THEN sm.attendance_percentage_x100 * sm.total_days = sm.present_days * 10000
            ELSE sm.attendance_percentage_x100 = 0

\* C7 amended: total_days, present_days and absent_days are the counts of
\* the employee's rows, of those Present and of those Absent; the percentage
\* is present / total * 100 rounded to the nearest hundredth, 0 when there
\* is no row.
C7_SummaryCounts ==
    (response.op = "get_employee_attendance" /\ response.status = HTTP_200_OK) =>
        LET sm == SummaryOf(response)
            rows == EntriesOf(response.args.employee_id)
        IN  /\ sm.total_days = Cardinality(rows)
            /\ sm.present_days = Cardinality({a \in rows : a.status = PRESENT})
            /\ sm.absent_days = Cardinality({a \in rows : a.status = ABSENT})
            /\ sm.absent_days = sm.total_days - sm.present_days
            /\ IF sm.total_days > 0
               THEN LET d == sm.attendance_percentage_x100 * sm.total_days
                             - sm.present_days * 10000
                    IN  2 * d <= sm.total_days /\ -2 * d <= sm.total_days
               ELSE sm.attendance_percentage_x100 = 0

\* 3 Present and 1 Absent give 4, 3, 1 and 75.00, while the other employee
\* has rows of both statuses.
C7_Witness ==
    /\ response.op = "get_employee_attendance"
    /\ response.status = HTTP_200_OK
    /\ SummaryOf(response) = [total_days |-> 4, present_days |-> 3, absent_days |-> 1,
                              attendance_percentage_x100 |-> 7500]
    /\ \E a, b \in attendance :
           /\ a.employee_id # response.args.employee_id
           /\ b.employee_id = a.employee_id
           /\ a.status = PRESENT
           /\ b.status = ABSENT

\* C8: the four values of one dashboard response satisfy
\* not_marked = total_employees - present_today - absent_today.
C8_NotMarkedIsConsistent ==
    response.op = "get_dashboard_stats" =>
        response.body.not_marked =
            response.body.total_employees - response.body.present_today
                - response.body.absent_today

\* C9: update_attendance on the id of a stored row answers 200 with that row
\* carrying the requested status, changes nothing else of that row, no other
\* row and no employee; on an id of no stored row it answers 404 and leaves
\* the store as it was.
C9_UpdateStatusFrame ==
    [][\A id \in AttendanceIds, st \in AttendanceStatus :
          (/\ response'.op = "update_attendance"
           /\ response'.args = [attendance_id |-> id, status |-> st]) =>
              /\ employees' = employees
              /\ IF \E a \in attendance : a.id = id
                 THEN \E a \in attendance :
                          /\ a.id = id
                          /\ response'.status = HTTP_200_OK
                          /\ response'.body =
                                 [id |-> a.id, employee_id |-> a.employee_id,
                                  date |-> a.date, status |-> st]
                          /\ response'.body \in attendance'
                          /\ attendance' \ {response'.body} = attendance \ {a}
                 ELSE /\ response'.status = HTTP_404_NOT_FOUND
                      /\ attendance' = attendance
      ]_vars

\* A row was just set to Absent while another row, Present, stayed as it was.
C9_Witness ==
    /\ response.op = "update_attendance"
    /\ response.status = HTTP_200_OK
    /\ response.body.status = ABSENT
    /\ \E a \in attendance : a.id # response.body.id /\ a.status = PRESENT

====
